---------------------------- MODULE Spec2Model ----------------------------
(***************************************************************************)
(* A model of the particle system of js/sketch.js: the quadtree (Boundary, *)
(* Circle, QuadTree), the particle motion model (Particle), the frame loop *)
(* draw() and the event handlers keyPressed(), windowResized() and the     *)
(* pointer state.                                                          *)
(*                                                                         *)
(* Numbers.  The sketch computes in floating point.  The model computes in *)
(* fixed point: every length, position, velocity and acceleration is an    *)
(* integer number of units of 1/Scale pixel (0.01 px, the magnitude of the *)
(* random perturbation of Particle.update).  Products that the code        *)
(* divides (normalize, limit, the drag factor 0.99) are rounded toward     *)
(* zero.  Halving a boundary (QuadTree.subdivide) is exact as long as the  *)
(* half-extent is even; the domain sizes used are 2^10 * 25 units, so this *)
(* holds down to depth 10, further than any tree of the bounds below.      *)
(*                                                                         *)
(* Object identity.  A Particle is a JS object; the quadtree holds         *)
(* references and reads p.pos at query time.  A particle carries an id     *)
(* (its identity) and a tree node holds ids; ParticleOf dereferences.  An  *)
(* id is unique among the particles of the list: a particle gets the       *)
(* number of the list slot it is pushed to, and a popped particle's id is  *)
(* free again, as the address of a collected object is.                    *)
(*                                                                         *)
(* Rendering (display, drawConnection's stroke, displayUI, the FPS meter,  *)
(* hue and size) draws from the state and does not change what is modelled *)
(* here; a drawConnection call is recorded in `connections`.               *)
(***************************************************************************)
EXTENDS Integers, Sequences, FiniteSets, TLC

VARIABLES
    particles,       \* let particles = []            (sketch.js:6)
    width, height,   \* p5 canvas size, set by createCanvas / resizeCanvas
    mouseIsPressed,  \* p5 pointer state
    mouseX, mouseY,
    repulsionMode,   \* sketch.js:12
    useQuadtree,     \* sketch.js:17
    quadtree,        \* sketch.js:18
    pc,              \* where draw() stands: "idle" between frames, "loop" inside
    i,               \* the loop index of draw() (1-based), sketch.js:77
    connections,     \* the drawConnection calls of the frame so far, <<id1, id2>>
    range, found,    \* the last query: its Circle and its result (ids)
    frameCount       \* p5 frame counter

vars == <<particles, width, height, mouseIsPressed, mouseX, mouseY,
          repulsionMode, useQuadtree, quadtree, pc, i, connections,
          range, found, frameCount>>

---------------------------------------------------------------------------
(* Program constants *)

Scale == 100
numParticles == 150
maxSpeed == 2
connectionDistance == 120

(* Bounds of the model *)

MaxInserts == 5
MaxParticles == 2
MaxFrames == 2
MaxPopulation == 170
MaxFramePopulation == 10

---------------------------------------------------------------------------
(* Arithmetic *)

\* JS division of a by b > 0, rounded toward zero
Quot(a, b) == IF a >= 0 THEN a \div b ELSE -((-a) \div b)

RECURSIVE IsqrtIter(_, _, _)
IsqrtIter(n, lo, hi) ==
    IF lo >= hi THEN lo
    ELSE LET mid == (lo + hi + 1) \div 2
         IN  IF mid * mid <= n THEN IsqrtIter(n, mid, hi)
                               ELSE IsqrtIter(n, lo, mid - 1)

\* Math.sqrt, rounded down to the unit
Isqrt(n) == IsqrtIter(n, 0, 46340)

\* p5 dist(x1, y1, x2, y2)
Dist(x1, y1, x2, y2) == Isqrt((x2 - x1) * (x2 - x1) + (y2 - y1) * (y2 - y1))

\* p5 createVector(x, y)
Vec(x, y) == [x |-> x, y |-> y]

\* p5.Vector.mag
Mag(v) == Isqrt(v.x * v.x + v.y * v.y)

---------------------------------------------------------------------------
(* Boundary and Circle *)

Boundary(x, y, w, h) == [x |-> x, y |-> y, w |-> w, h |-> h]

Circle(x, y, r) == [x |-> x, y |-> y, r |-> r]

\* Boundary.contains(point): closed-open on both axes
Contains(b, point) ==
    /\ point.pos.x >= b.x - b.w
    /\ point.pos.x < b.x + b.w
    /\ point.pos.y >= b.y - b.h
    /\ point.pos.y < b.y + b.h

\* Intersects with the left-hand test written against the right-hand edge
IntersectsRightEdgeTwice(b, rg) ==
    ~(\/ rg.x - rg.r > b.x + b.w
      \/ rg.x + rg.r < b.x + b.w
      \/ rg.y - rg.r > b.y + b.h
      \/ rg.y + rg.r < b.y - b.h)

\* Boundary.intersects(range): the circle's bounding square against the rectangle
Intersects(b, rg) ==
    ~(\/ rg.x - rg.r > b.x + b.w
      \/ rg.x + rg.r < b.x - b.w
      \/ rg.y - rg.r > b.y + b.h
      \/ rg.y + rg.r < b.y - b.h)

---------------------------------------------------------------------------
(* QuadTree *)

\* The value of a child field that has not been assigned
Undefined == [undefined |-> TRUE]

\* new QuadTree(boundary, capacity); the four child fields are undefined
NewQuadTree(boundary, capacity) ==
    [boundary |-> boundary, capacity |-> capacity, points |-> <<>>,
     divided |-> FALSE, northeast |-> Undefined, northwest |-> Undefined,
     southeast |-> Undefined, southwest |-> Undefined]

\* Subdivide with the north-west child centred where the north-east one is
SubdivideNorthEastTwice(qt) ==
    LET x == qt.boundary.x
        y == qt.boundary.y
        w == qt.boundary.w \div 2
        h == qt.boundary.h \div 2
    IN  [qt EXCEPT
            !.northeast = NewQuadTree(Boundary(x + w, y - h, w, h), qt.capacity),
            !.northwest = NewQuadTree(Boundary(x + w, y - h, w, h), qt.capacity),
            !.southeast = NewQuadTree(Boundary(x + w, y + h, w, h), qt.capacity),
            !.southwest = NewQuadTree(Boundary(x - w, y + h, w, h), qt.capacity),
            !.divided = TRUE]

\* Subdivide that creates the children and leaves the divided flag unset
SubdivideFlagUnset(qt) ==
    LET x == qt.boundary.x
        y == qt.boundary.y
        w == qt.boundary.w \div 2
        h == qt.boundary.h \div 2
    IN  [qt EXCEPT
            !.northeast = NewQuadTree(Boundary(x + w, y - h, w, h), qt.capacity),
            !.northwest = NewQuadTree(Boundary(x - w, y - h, w, h), qt.capacity),
            !.southeast = NewQuadTree(Boundary(x + w, y + h, w, h), qt.capacity),
            !.southwest = NewQuadTree(Boundary(x - w, y + h, w, h), qt.capacity)]

\* QuadTree.subdivide
Subdivide(qt) ==
    LET x == qt.boundary.x
        y == qt.boundary.y
        w == qt.boundary.w \div 2
        h == qt.boundary.h \div 2
    IN  [qt EXCEPT
            !.northeast = NewQuadTree(Boundary(x + w, y - h, w, h), qt.capacity),
            !.northwest = NewQuadTree(Boundary(x - w, y - h, w, h), qt.capacity),
            !.southeast = NewQuadTree(Boundary(x + w, y + h, w, h), qt.capacity),
            !.southwest = NewQuadTree(Boundary(x - w, y + h, w, h), qt.capacity),
            !.divided = TRUE]

\* QuadTree.insert(point): the return value and the node as the call leaves it.
\* The || chain stops at the first child that accepts.
RECURSIVE Insert(_, _)
Insert(qt, point) ==
    IF ~Contains(qt.boundary, point) THEN [ok |-> FALSE, tree |-> qt]
    ELSE IF Len(qt.points) < qt.capacity
    THEN [ok |-> TRUE, tree |-> [qt EXCEPT !.points = Append(@, point.id)]]
    ELSE LET d  == IF ~qt.divided THEN Subdivide(qt) ELSE qt
             ne == Insert(d.northeast, point)
             t1 == [d EXCEPT !.northeast = ne.tree]
         IN  IF ne.ok THEN [ok |-> TRUE, tree |-> t1]
             ELSE LET nw == Insert(t1.northwest, point)
                      t2 == [t1 EXCEPT !.northwest = nw.tree]
                  IN  IF nw.ok THEN [ok |-> TRUE, tree |-> t2]
                      ELSE LET se == Insert(t2.southeast, point)
                               t3 == [t2 EXCEPT !.southeast = se.tree]
                           IN  IF se.ok THEN [ok |-> TRUE, tree |-> t3]
                               ELSE LET sw == Insert(t3.southwest, point)
                                    IN  [ok |-> sw.ok,
                                         tree |-> [t3 EXCEPT !.southwest = sw.tree]]

\* Dereference a particle reference in the list ps
ParticleOf(ps, id) == ps[CHOOSE k \in 1..Len(ps) : ps[k].id = id]

\* The for-loop of QuadTree.query over this.points
RECURSIVE QueryPoints(_, _, _, _)
QueryPoints(pts, rg, acc, ps) ==
    IF pts = <<>> THEN acc
    ELSE LET p == ParticleOf(ps, Head(pts))
             d == Dist(rg.x, rg.y, p.pos.x, p.pos.y)
         IN  QueryPoints(Tail(pts), rg,
                         IF d < rg.r THEN Append(acc, p.id) ELSE acc, ps)

\* QuadTree.query(range, found), reading positions from the list ps
RECURSIVE Query(_, _, _, _)
Query(qt, rg, acc, ps) ==
    IF ~Intersects(qt.boundary, rg) THEN acc
    ELSE LET f0 == QueryPoints(qt.points, rg, acc, ps)
         IN  IF qt.divided
             THEN Query(qt.southwest, rg,
                    Query(qt.southeast, rg,
                      Query(qt.northwest, rg,
                        Query(qt.northeast, rg, f0, ps), ps), ps), ps)
             ELSE f0

\* The root index of setup() and draw()
RootTree(wd, ht) ==
    NewQuadTree(Boundary(wd \div 2, ht \div 2, wd \div 2, ht \div 2), 4)

\* The loop of draw() that inserts every particle, from the k-th on
RECURSIVE InsertAll(_, _, _)
InsertAll(qt, ps, k) ==
    IF k > Len(ps) THEN qt ELSE InsertAll(Insert(qt, ps[k]).tree, ps, k + 1)

---------------------------------------------------------------------------
(* Particle *)

\* p5 random(lo, hi) for the generator output u / 256, u in 0..255
Random(u, lo, hi) == lo + ((hi - lo) * u) \div 256

\* The generator outputs one constructor consumes (position x, y; velocity x, y)
Draw(fx, fy, ux, uy) == [fx |-> fx, fy |-> fy, ux |-> ux, uy |-> uy]

\* new Particle(), with identity id, on a canvas wd x ht
NewParticle(id, dr, wd, ht) ==
    [id  |-> id,
     pos |-> Vec(Random(dr.fx, 0, wd), Random(dr.fy, 0, ht)),
     vel |-> Vec(Random(dr.ux, -maxSpeed * Scale, maxSpeed * Scale),
                 Random(dr.uy, -maxSpeed * Scale, maxSpeed * Scale)),
     acc |-> Vec(0, 0)]

\* constrain(1 / (distance * 0.03), 0, 0.8), in units
Strength(distance) ==
    LET s  == (100 * Scale * Scale) \div (3 * distance)
        hi == (8 * Scale) \div 10
    IN  IF s < 0 THEN 0 ELSE IF s > hi THEN hi ELSE s

\* The acceleration Particle.update sets before the perturbation is added:
\* the pointer force, zero when the pointer is up, and the acceleration the
\* last call left when the pointer is down within 5 px
PointerAcc(p, pressed, mx, my, repel) ==
    IF pressed
    THEN LET dir      == Vec(mx - p.pos.x, my - p.pos.y)
             distance == Mag(dir)
             sgn      == IF repel THEN -1 ELSE 1
         IN  IF distance > 5 * Scale
             THEN Vec(Quot(sgn * dir.x * Strength(distance), distance),
                      Quot(sgn * dir.y * Strength(distance), distance))
             ELSE p.acc
    ELSE Vec(0, 0)

\* p5.Vector.limit(max)
Limit(v, max) ==
    LET mSq == v.x * v.x + v.y * v.y
    IN  IF mSq > max * max
        THEN Vec(Quot(v.x * max, Isqrt(mSq)), Quot(v.y * max, Isqrt(mSq)))
        ELSE v

\* The two edge tests of one axis, in the order of the code
Wrap(c, size) ==
    LET c1 == IF c < 0 THEN size ELSE c
    IN  IF c1 > size THEN 0 ELSE c1

\* Particle.update(), with rnd the value of p5.Vector.random2D().mult(0.01)
Update(p, rnd, pressed, mx, my, repel, wd, ht) ==
    LET a0  == PointerAcc(p, pressed, mx, my, repel)
        acc == Vec(a0.x + rnd.x, a0.y + rnd.y)
        v1  == Limit(Vec(p.vel.x + acc.x, p.vel.y + acc.y), maxSpeed * Scale)
        pos == Vec(p.pos.x + v1.x, p.pos.y + v1.y)
        v2  == Vec(Quot(v1.x * 99, 100), Quot(v1.y * 99, 100))
    IN  [id  |-> p.id,
         pos |-> Vec(Wrap(pos.x, wd), Wrap(pos.y, ht)),
         vel |-> v2,
         acc |-> acc]

\* Values of random2D().mult(0.01) that the fixed point represents exactly
RandomDirs == {Vec(1, 0), Vec(0, -1)}

\* n constructor calls pushing to a list of length len0
Construct(n, len0, draws, wd, ht) ==
    [k \in 1..n |-> NewParticle(len0 + k, draws[k], wd, ht)]

---------------------------------------------------------------------------
(* draw() *)

\* particles.indexOf(neighbor): the first slot holding the reference, 0 for none
IndexOf(ps, id) ==
    IF \E k \in 1..Len(ps) : ps[k].id = id
    THEN CHOOSE k \in 1..Len(ps) :
            ps[k].id = id /\ \A m \in 1..(k - 1) : ps[m].id # id
    ELSE 0

\* ConnectNeighbors that skips the particle itself and compares no indices
RECURSIVE ConnectNeighborsSelfOnly(_, _, _, _)
ConnectNeighborsSelfOnly(ps, k, neighbors, out) ==
    IF neighbors = <<>> THEN out
    ELSE LET nb == Head(neighbors)
             q  == ParticleOf(ps, nb)
             d  == Dist(ps[k].pos.x, ps[k].pos.y, q.pos.x, q.pos.y)
         IN  ConnectNeighborsSelfOnly(ps, k, Tail(neighbors),
                IF nb = ps[k].id THEN out
                ELSE IF d < connectionDistance * Scale
                     THEN Append(out, <<ps[k].id, nb>>)
                     ELSE out)

\* The loop over the neighbors of particle k: the drawConnection calls it makes
RECURSIVE ConnectNeighbors(_, _, _, _)
ConnectNeighbors(ps, k, neighbors, out) ==
    IF neighbors = <<>> THEN out
    ELSE LET nb == Head(neighbors)
             q  == ParticleOf(ps, nb)
             d  == Dist(ps[k].pos.x, ps[k].pos.y, q.pos.x, q.pos.y)
         IN  ConnectNeighbors(ps, k, Tail(neighbors),
                IF nb = ps[k].id \/ IndexOf(ps, nb) <= k THEN out
                ELSE IF d < connectionDistance * Scale
                     THEN Append(out, <<ps[k].id, nb>>)
                     ELSE out)

\* The brute-force loop of particle k over j > k, from j on
RECURSIVE ConnectAll(_, _, _, _)
ConnectAll(ps, k, j, out) ==
    IF j > Len(ps) THEN out
    ELSE LET d == Dist(ps[k].pos.x, ps[k].pos.y, ps[j].pos.x, ps[j].pos.y)
         IN  ConnectAll(ps, k, j + 1,
                IF d < connectionDistance * Scale
                THEN Append(out, <<ps[k].id, ps[j].id>>)
                ELSE out)

\* draw() up to its particle loop: a fresh index of all particles when in use
DrawBegin ==
    /\ pc = "idle"
    /\ frameCount < MaxFrames
    /\ frameCount' = frameCount + 1
    /\ quadtree' = IF useQuadtree
                   THEN InsertAll(RootTree(width, height), particles, 1)
                   ELSE quadtree
    /\ pc' = "loop"
    /\ i' = 1
    /\ connections' = <<>>
    /\ UNCHANGED <<particles, width, height, mouseIsPressed, mouseX, mouseY,
                   repulsionMode, useQuadtree, range, found>>

\* One iteration of the particle loop of draw(): update, then connect
DrawStep(rnd) ==
    /\ pc = "loop"
    /\ i <= Len(particles)
    /\ LET ps == [particles EXCEPT ![i] =
                    Update(@, rnd, mouseIsPressed, mouseX, mouseY,
                           repulsionMode, width, height)]
           rg == Circle(ps[i].pos.x, ps[i].pos.y, connectionDistance * Scale)
           nb == Query(quadtree, rg, <<>>, ps)
       IN  /\ particles' = ps
           /\ IF useQuadtree
              THEN /\ range' = rg
                   /\ found' = nb
                   /\ connections' = ConnectNeighbors(ps, i, nb, connections)
              ELSE /\ connections' = ConnectAll(ps, i, i + 1, connections)
                   /\ UNCHANGED <<range, found>>
    /\ i' = i + 1
    /\ UNCHANGED <<width, height, mouseIsPressed, mouseX, mouseY,
                   repulsionMode, useQuadtree, quadtree, pc, frameCount>>

\* The end of draw(), after the loop
DrawEnd ==
    /\ pc = "loop"
    /\ i > Len(particles)
    /\ pc' = "idle"
    /\ UNCHANGED <<particles, width, height, mouseIsPressed, mouseX, mouseY,
                   repulsionMode, useQuadtree, quadtree, i, connections,
                   range, found, frameCount>>

---------------------------------------------------------------------------
(* Events, delivered between frames *)

\* The 'D' branch with the floor test off by one
KeyRemoveAtFloor(key, ps) ==
    IF key \in {"d", "D"} /\ Len(ps) >= 10
    THEN SubSeq(ps, 1, Len(ps) - 10)
    ELSE ps

\* The 'D' branch of keyPressed(): ten pops above the floor of 10
KeyRemove(key, ps) ==
    IF key \in {"d", "D"} /\ Len(ps) > 10
    THEN SubSeq(ps, 1, Len(ps) - 10)
    ELSE ps

\* keyPressed(), with draws the generator outputs of the constructors it calls
KeyPressed(key, draws) ==
    /\ pc = "idle"
    /\ key \in {"a", "A"} => Len(particles) + 10 <= MaxPopulation
    /\ repulsionMode' = IF key \in {"r", "R"} THEN ~repulsionMode ELSE repulsionMode
    /\ LET p1 == IF key \in {"a", "A"}
                 THEN particles \o Construct(10, Len(particles), draws, width, height)
                 ELSE particles
           p2 == KeyRemove(key, p1)
           p3 == IF key = " " /\ Len(p2) > 0
                 THEN Construct(numParticles, 0, draws, width, height)
                 ELSE p2
       IN  particles' = p3
    /\ useQuadtree' = IF key \in {"q", "Q"} THEN ~useQuadtree ELSE useQuadtree
    /\ UNCHANGED <<width, height, mouseIsPressed, mouseX, mouseY, quadtree, pc,
                   i, connections, range, found, frameCount>>

\* windowResized(): resizeCanvas(windowWidth, windowHeight)
WindowResized(wd, ht) ==
    /\ pc = "idle"
    /\ width' = wd
    /\ height' = ht
    /\ UNCHANGED <<particles, mouseIsPressed, mouseX, mouseY, repulsionMode,
                   useQuadtree, quadtree, pc, i, connections, range, found,
                   frameCount>>

\* p5 sets mouseIsPressed, mouseX and mouseY from the pointer events
Pointer(pressed, mx, my) ==
    /\ pc = "idle"
    /\ mouseIsPressed' = pressed
    /\ mouseX' = mx
    /\ mouseY' = my
    /\ UNCHANGED <<particles, width, height, repulsionMode, useQuadtree,
                   quadtree, pc, i, connections, range, found, frameCount>>

\* setup() with n particles on a canvas wd x ht
Setup(n, draws, wd, ht) ==
    /\ particles = Construct(n, 0, draws, wd, ht)
    /\ width = wd
    /\ height = ht
    /\ mouseIsPressed = FALSE
    /\ mouseX = 0
    /\ mouseY = 0
    /\ repulsionMode = FALSE
    /\ useQuadtree = TRUE
    /\ quadtree = RootTree(wd, ht)
    /\ pc = "idle"
    /\ i = 1
    /\ connections = <<>>
    /\ range = Circle(0, 0, 0)
    /\ found = <<>>
    /\ frameCount = 0

---------------------------------------------------------------------------
(* The frame loop on a small population: setup() with 1..MaxParticles      *)
(* particles in place of numParticles, then frames with the events between *)
(* them.                                                                   *)

\* Canvas sizes: 256 px and 128 px
Sizes == {256 * Scale, 128 * Scale}

\* Constructor draws: at the left edge moving left, fast on the diagonal,
\* slow at the centre
InitDraws == {Draw(0, 100, 0, 128), Draw(200, 100, 255, 255), Draw(100, 100, 128, 128)}

\* The pointer position: where the second draw puts its particle
PointerAt == Vec(200 * Scale, 100 * Scale)

Init ==
    \E n \in 1..MaxParticles :
        \E draws \in [1..n -> InitDraws] :
            Setup(n, draws, 256 * Scale, 256 * Scale)

Frame ==
    \/ DrawBegin
    \/ \E rnd \in RandomDirs : DrawStep(rnd)
    \/ DrawEnd

Next ==
    \/ Frame
    \/ \E key \in {"r", "q"} : KeyPressed(key, <<>>)
    \/ \E sz \in Sizes : WindowResized(sz, 256 * Scale)
    \/ \E pressed \in BOOLEAN : Pointer(pressed, PointerAt.x, PointerAt.y)

Spec == Init /\ [][Next]_vars

\* The frame loop with the index switched on and off and nothing else
NextPairs ==
    \/ Frame
    \/ KeyPressed("q", <<>>)
    \/ \E sz \in Sizes : WindowResized(sz, 256 * Scale)

SpecPairs == Init /\ [][NextPairs]_vars

---------------------------------------------------------------------------
(* The quadtree on its own: inserts, then queries *)

\* A particle placed at v
ParticleAt(id, v) == [id |-> id, pos |-> v, vel |-> Vec(0, 0), acc |-> Vec(0, 0)]

\* Positions, in px: (10,10); the root's centre, on both of its split lines;
\* on the split line of the root's north-west child; in the south-east; and
\* on the root's right edge x = width, which the root does not contain
TreePos == {Vec(10 * Scale, 10 * Scale), Vec(128 * Scale, 128 * Scale),
            Vec(64 * Scale, 10 * Scale), Vec(200 * Scale, 200 * Scale),
            Vec(256 * Scale, 10 * Scale)}

\* Query regions: radius 1 px and the connection radius, centred on (10,10),
\* on the root's centre and on (200,200)
TreeRanges ==
    {Circle(c * Scale, c * Scale, r) :
        c \in {10, 128, 200}, r \in {Scale, connectionDistance * Scale}}

\* Trees to start from: empty, and a root filled to capacity at (10,10)
Preloads == {0, 4}

InitTree ==
    \E n \in Preloads :
        /\ particles = [k \in 1..n |-> ParticleAt(k, Vec(10 * Scale, 10 * Scale))]
        /\ quadtree = InsertAll(RootTree(256 * Scale, 256 * Scale), particles, 1)
        /\ width = 256 * Scale
        /\ height = 256 * Scale
        /\ mouseIsPressed = FALSE
        /\ mouseX = 0
        /\ mouseY = 0
        /\ repulsionMode = FALSE
        /\ useQuadtree = TRUE
        /\ pc = "insert"
        /\ i = 1
        /\ connections = <<>>
        /\ range = Circle(0, 0, 0)
        /\ found = <<>>
        /\ frameCount = 0

\* quadtree.insert(particle) of a new particle at v
TreeInsert(v) ==
    /\ pc = "insert"
    /\ i <= MaxInserts
    /\ LET p == ParticleAt(Len(particles) + 1, v)
       IN  /\ particles' = Append(particles, p)
           /\ quadtree' = Insert(quadtree, p).tree
    /\ i' = i + 1
    /\ UNCHANGED <<width, height, mouseIsPressed, mouseX, mouseY, repulsionMode,
                   useQuadtree, pc, connections, range, found, frameCount>>

\* quadtree.query(rg, []), once the inserts are done
TreeQuery(rg) ==
    /\ pc = "insert"
    /\ pc' = "query"
    /\ range' = rg
    /\ found' = Query(quadtree, rg, <<>>, particles)
    /\ UNCHANGED <<particles, width, height, mouseIsPressed, mouseX, mouseY,
                   repulsionMode, useQuadtree, quadtree, i, connections,
                   frameCount>>

NextTree ==
    \/ \E v \in TreePos : TreeInsert(v)
    \/ \E rg \in TreeRanges : TreeQuery(rg)

SpecTree == InitTree /\ [][NextTree]_vars

---------------------------------------------------------------------------
(* The key commands on the population of setup().  The constructors take   *)
(* their draws from a fixed stream, and a frame starts only at a           *)
(* population of at most MaxFramePopulation.                               *)

\* The generator outputs of the k-th constructor call of a handler
PoolDraws ==
    [k \in 1..numParticles |->
        Draw((k * 37) % 256, (k * 101) % 256, (k * 53) % 256, (k * 29) % 256)]

InitKeys == Setup(numParticles, PoolDraws, 256 * Scale, 256 * Scale)

NextKeys ==
    \/ \E key \in {"r", "a", "d", "q", " ", "x"} : KeyPressed(key, PoolDraws)
    \/ Len(particles) <= MaxFramePopulation /\ DrawBegin
    \/ DrawStep(Vec(1, 0))
    \/ DrawEnd

SpecKeys == InitKeys /\ [][NextKeys]_vars

---------------------------------------------------------------------------
(* Vocabulary of the properties *)

\* The nodes of a tree
RECURSIVE Nodes(_)
Nodes(qt) ==
    IF qt.divided
    THEN {qt} \cup Nodes(qt.northeast) \cup Nodes(qt.northwest)
              \cup Nodes(qt.southeast) \cup Nodes(qt.southwest)
    ELSE {qt}

\* How often x occurs in the sequence sq
Occurrences(sq, x) == Cardinality({k \in 1..Len(sq) : sq[k] = x})

\* How many (node, slot) places of the tree hold the reference id
RECURSIVE HeldCount(_, _)
HeldCount(qt, id) ==
    Occurrences(qt.points, id) +
    (IF qt.divided
     THEN HeldCount(qt.northeast, id) + HeldCount(qt.northwest, id)
          + HeldCount(qt.southeast, id) + HeldCount(qt.southwest, id)
     ELSE 0)

\* The elements of a sequence
Elements(sq) == {sq[k] : k \in 1..Len(sq)}

\* The child field holds a node
IsNode(x) == "boundary" \in DOMAIN x

\* Some point of the closed rectangle b is at distance < r of the circle's centre
Overlaps(b, rg) ==
    LET gx == IF rg.x < b.x - b.w THEN b.x - b.w - rg.x
              ELSE IF rg.x > b.x + b.w THEN rg.x - (b.x + b.w) ELSE 0
        gy == IF rg.y < b.y - b.h THEN b.y - b.h - rg.y
              ELSE IF rg.y > b.y + b.h THEN rg.y - (b.y + b.h) ELSE 0
    IN  gx < rg.r /\ gy < rg.r /\ gx * gx + gy * gy < rg.r * rg.r

\* The position lies in the closed domain [0, width] x [0, height]
InClosedDomain(v) == v.x >= 0 /\ v.x <= width /\ v.y >= 0 /\ v.y <= height

---------------------------------------------------------------------------
(* C1 *)

\* C1: in a frame that uses the index, the connections emitted for the
\* particle just processed are exactly the pairs the all-pairs scan over
\* j > i with d < connectionDistance emits for it.
C1_IndexEqualsBruteForce ==
    (pc = "loop" /\ useQuadtree /\ i > 1) =>
        {c \in Elements(connections) : c[1] = particles[i - 1].id}
            = Elements(ConnectAll(particles, i - 1, i, <<>>))

---------------------------------------------------------------------------
(* C2 *)

\* C2: within a frame no connection joins a particle to itself, no ordered
\* pair is emitted twice, no pair is emitted in both orders, and the result
\* of a query holds no particle twice.
C2_PairsUnique ==
    /\ \A a \in 1..Len(connections) :
          /\ connections[a][1] # connections[a][2]
          /\ \A b \in 1..Len(connections) :
                a # b => /\ connections[a] # connections[b]
                         /\ connections[a] # <<connections[b][2], connections[b][1]>>
    /\ \A a, b \in 1..Len(found) : a # b => found[a] # found[b]

\* A frame on the indexed path has emitted a connection
C2_Witness == pc = "loop" /\ useQuadtree /\ connections # <<>> /\ Len(found) > 1

---------------------------------------------------------------------------
(* C3 *)

\* C3: every inserted particle whose position the root boundary contains is
\* held at exactly one place of the tree, by a node whose boundary contains
\* its position; a query of positive radius centred on it returns it exactly
\* once; and capacity + 1 particles at one position make exactly one
\* subdivision.
C3_ContainmentExact ==
    /\ \A k \in 1..Len(particles) :
          Contains(RootTree(width, height).boundary, particles[k]) =>
            /\ HeldCount(quadtree, particles[k].id) = 1
            /\ \A nd \in Nodes(quadtree) :
                  particles[k].id \in Elements(nd.points)
                      => Contains(nd.boundary, particles[k])
            /\ (/\ pc = "query"
                /\ range.x = particles[k].pos.x
                /\ range.y = particles[k].pos.y
                /\ range.r > 0)
                  => Occurrences(found, particles[k].id) = 1
            /\ pc = "insert" =>
                  Occurrences(Query(quadtree,
                                    Circle(particles[k].pos.x, particles[k].pos.y, Scale),
                                    <<>>, particles),
                              particles[k].id) = 1
    /\ (/\ Len(particles) = quadtree.capacity + 1
        /\ \A k \in 1..Len(particles) :
              /\ particles[k].pos = particles[1].pos
              /\ Contains(RootTree(width, height).boundary, particles[k]))
          => Cardinality({nd \in Nodes(quadtree) : nd.divided}) = 1

\* Five particles at one position and a sixth on the root's split lines, held
\* by a child, have been inserted and the sixth has been queried for
C3_Witness ==
    /\ pc = "query"
    /\ Len(particles) >= 6
    /\ \A k \in 1..(quadtree.capacity + 1) : particles[k].pos = particles[1].pos
    /\ \E k \in 1..Len(particles) :
          /\ particles[k].pos = Vec(quadtree.boundary.x, quadtree.boundary.y)
          /\ particles[k].id \notin Elements(quadtree.points)
          /\ range = Circle(particles[k].pos.x, particles[k].pos.y, Scale)
          /\ particles[k].id \in Elements(found)

---------------------------------------------------------------------------
(* C4 *)

\* C4: intersects accepts every node boundary that the query circle really
\* overlaps, and the query returns every particle of the tree at distance
\* < r of the centre: none is lost to pruning.
C4_NoFalseNegative ==
    pc = "query" =>
        /\ \A nd \in Nodes(quadtree) :
              Overlaps(nd.boundary, range) => Intersects(nd.boundary, range)
        /\ \A k \in 1..Len(particles) :
              (/\ HeldCount(quadtree, particles[k].id) > 0
               /\ Dist(range.x, range.y, particles[k].pos.x, particles[k].pos.y)
                    < range.r)
                  => particles[k].id \in Elements(found)

\* A query has pruned one child of the root and found a particle in another
C4_Witness ==
    /\ pc = "query"
    /\ quadtree.divided
    /\ \E nd \in Nodes(quadtree) : ~Intersects(nd.boundary, range)
    /\ \E nd \in Nodes(quadtree) \ {quadtree} :
          /\ Overlaps(nd.boundary, range)
          /\ Elements(nd.points) \cap Elements(found) # {}

---------------------------------------------------------------------------
(* C5 *)

\* C5: a frame's index holds every particle that was in the closed domain
\* when the index was built (the particles the loop has not advanced yet
\* are still where they were inserted).
C5_NoSilentDrop ==
    (pc = "loop" /\ useQuadtree) =>
        \A k \in i..Len(particles) :
            InClosedDomain(particles[k].pos)
                => HeldCount(quadtree, particles[k].id) >= 1

---------------------------------------------------------------------------
(* C6 *)

\* C6: the population never falls below 10, and a remove command at a
\* population of 10 or less leaves the particle list as it is.
C6_PopulationFloor ==
    /\ [](Len(particles) >= 10)
    /\ [][(Len(particles) <= 10 /\ KeyPressed("d", PoolDraws))
            => particles' = particles]_vars

\* Remove commands have brought the population down to the floor
C6_Witness == Len(particles) = 10 /\ pc = "idle"

---------------------------------------------------------------------------
(* C7 *)

\* C7: every particle's velocity magnitude is at most maxSpeed, in every
\* state.
C7_VelocityBound ==
    \A k \in 1..Len(particles) :
        particles[k].vel.x * particles[k].vel.x
          + particles[k].vel.y * particles[k].vel.y
            <= (maxSpeed * Scale) * (maxSpeed * Scale)

---------------------------------------------------------------------------
(* C8 *)

\* C8, as stated: every node is a leaf with at most capacity particles and
\* no children, or has four children and holds no particle itself.
C8_LeafOrEmptyInternal ==
    \A nd \in Nodes(quadtree) :
        \/ /\ ~nd.divided
           /\ Len(nd.points) <= nd.capacity
           /\ ~IsNode(nd.northeast) /\ ~IsNode(nd.northwest)
           /\ ~IsNode(nd.southeast) /\ ~IsNode(nd.southwest)
        \/ /\ nd.divided
           /\ IsNode(nd.northeast) /\ IsNode(nd.northwest)
           /\ IsNode(nd.southeast) /\ IsNode(nd.southwest)
           /\ nd.points = <<>>

\* C8, amended: every node holds at most capacity particles; a node that is
\* not subdivided has no children; a subdivided node has four children and
\* still holds the capacity particles it took before it was subdivided.
C8_LeafOrFullInternal ==
    \A nd \in Nodes(quadtree) :
        /\ Len(nd.points) <= nd.capacity
        /\ \/ /\ ~nd.divided
              /\ ~IsNode(nd.northeast) /\ ~IsNode(nd.northwest)
              /\ ~IsNode(nd.southeast) /\ ~IsNode(nd.southwest)
           \/ /\ nd.divided
              /\ IsNode(nd.northeast) /\ IsNode(nd.northwest)
              /\ IsNode(nd.southeast) /\ IsNode(nd.southwest)
              /\ Len(nd.points) = nd.capacity

\* A child of the root has been subdivided in its turn
C8_Witness ==
    /\ quadtree.divided
    /\ \E nd \in Nodes(quadtree) \ {quadtree} : nd.divided

---------------------------------------------------------------------------
(* C9 *)

\* C9: inside a frame, the index is built and a particle is queried only
\* once every particle has been advanced.
C9_AdvanceBeforeIndex ==
    (pc = "loop" /\ (useQuadtree \/ i > 1)) => i > Len(particles)

---------------------------------------------------------------------------
(* C10 *)

\* The acceleration recomputed from scratch: zero, or the pointer force when
\* the pointer is down further than 5 px away
FreshAcc(p) ==
    LET dir == Vec(mouseX - p.pos.x, mouseY - p.pos.y)
    IN  IF mouseIsPressed /\ Mag(dir) > 5 * Scale
        THEN PointerAcc(p, TRUE, mouseX, mouseY, repulsionMode)
        ELSE Vec(0, 0)

\* C10: the acceleration an update leaves is the acceleration recomputed
\* from scratch plus this call's perturbation, whatever the last call left.
C10_AccFromScratch ==
    [][\A k \in 1..Len(particles) :
          (Len(particles') = Len(particles) /\ particles'[k] # particles[k]) =>
              \E rnd \in RandomDirs :
                  particles'[k].acc = Vec(FreshAcc(particles[k]).x + rnd.x,
                                         FreshAcc(particles[k]).y + rnd.y)]_vars

===========================================================================
